---- MODULE Spec2Model ----
(***************************************************************************)
(* fc-vps: the command-line client of the Firecracker VPS service          *)
(* (src/cli/src/main.rs).  One CLI invocation is a sequential process: it  *)
(* probes the service, dispatches to one command handler (or to the        *)
(* interactive console, which re-dispatches in a loop), and exits.  Every  *)
(* HTTP call is one step whose response is chosen by the service.          *)
(***************************************************************************)
EXTENDS Integers, Sequences, FiniteSets, TLC

VARIABLES
    vms,     \* the service's VM records, in the order GET /api/v1/vms lists them
    cmd,     \* the parsed command line (Cli::parse)
    h,       \* the arguments of the handler call in progress
    pc,      \* where the process is
    trace,   \* HTTP calls, prompts and printed notices so far (console: of this iteration)
    vm,      \* the record find_vm_by_name_or_id returned to the handler
    err,     \* the error the last handler returned ("none" for Ok)
    exit,    \* the process exit code, -1 while running
    iter     \* console: actions dispatched so far

vars == <<vms, cmd, h, pc, trace, vm, err, exit, iter>>

----------------------------------------------------------------------------
(* Bounds and universes *)

MaxIter == 2

\* ids the service assigns; they stand for strings of 8 bytes or more, which
\* the slices `vm.id[..8]` of the table rows and menu labels take for granted
Ids == {"i1", "i2"}
Names == {"n", "i1"}
Statuses == {"created", "running", "stopped", "Running"}
Tokens == {"i1", "n", "N"}
NoFilter == "-"
Filters == {NoFilter, "running", "STOPPED"}
CpuInputs == {0, 1, 8, 9}
MemInputs == {127, 128, 8192, 8193}
DiskInputs == {0, 1, 100, 101}

(* Program constants *)
CpuMin == 1
CpuMax == 8
MemMin == 128
MemMax == 8192
DiskMin == 1
DiskMax == 100
DefaultCpu == 1
DefaultMem == 512
DefaultDisk == 10

----------------------------------------------------------------------------
(* Data *)

VM(id, name, status) == [id |-> id, name |-> name, status |-> status]
NoVM == VM("", "", "")

VMRecords == {VM(i, n, s) : i \in Ids, n \in Names, s \in Statuses}

\* service states: at most one record per id
VMLists ==
    {<<>>} \cup {<<a>> : a \in VMRecords}
           \cup {p \in VMRecords \X VMRecords : p[1].id # p[2].id}

Frame(verb) ==
    [verb |-> verb, name |-> "n", cpu |-> DefaultCpu, memory |-> DefaultMem,
     disk |-> DefaultDisk, interactive |-> FALSE, status |-> NoFilter,
     id |-> "", wait |-> FALSE, force |-> FALSE]

Commands ==
    {[Frame("create") EXCEPT !.cpu = c, !.memory = m, !.disk = d, !.interactive = i] :
        c \in CpuInputs, m \in MemInputs, d \in DiskInputs, i \in BOOLEAN}
    \cup {[Frame("list") EXCEPT !.status = f] : f \in Filters}
    \cup {[Frame("get") EXCEPT !.id = t] : t \in Tokens}
    \cup {[Frame("start") EXCEPT !.id = t, !.wait = w] : t \in Tokens, w \in BOOLEAN}
    \cup {[Frame("stop") EXCEPT !.id = t, !.force = f] : t \in Tokens, f \in BOOLEAN}
    \cup {[Frame("delete") EXCEPT !.id = t, !.force = f] : t \in Tokens, f \in BOOLEAN}
    \cup {Frame("health"), Frame("console")}

VmVerbs == {"get", "start", "stop", "delete"}

(* Events of the trace *)
Http(op, id, data, res) == [k |-> "http", op |-> op, id |-> id, data |-> data, res |-> res]
Out(op) == [k |-> "out", op |-> op, id |-> "", data |-> <<>>, res |-> ""]
In(op, res) == [k |-> "in", op |-> op, id |-> "", data |-> <<>>, res |-> res]

HandlerOps == {"createVM", "listVMs", "getVM", "startVM", "stopVM", "deleteVM"}
MutatingOps == {"createVM", "startVM", "stopVM", "deleteVM"}

Calls(tr, op) == {i \in 1..Len(tr) : tr[i].k = "http" /\ tr[i].op = op}
HttpCalls(tr) == {i \in 1..Len(tr) : tr[i].k = "http"}
Outs(tr, op) == {i \in 1..Len(tr) : tr[i].k = "out" /\ tr[i].op = op}
Ins(tr, op) == {i \in 1..Len(tr) : tr[i].k = "in" /\ tr[i].op = op}

----------------------------------------------------------------------------
(* The service, as far as the HTTP contract fixes it.  A response is either  *)
(* a transport failure or an envelope {success, data}; data is an Option,   *)
(* written <<>> (absent) or <<x>> (present).                                *)

TransportFailure == [transport |-> TRUE, success |-> FALSE, data |-> <<>>]
Rejected == [transport |-> FALSE, success |-> FALSE, data |-> <<>>]
Envelope(data) == [transport |-> FALSE, success |-> TRUE, data |-> data]
Faulty == {TransportFailure, Rejected, Envelope(<<>>)}

SvcIndex(l, id) == {i \in 1..Len(l) : l[i].id = id}
SvcHas(l, id) == SvcIndex(l, id) # {}
SvcFind(l, id) == l[CHOOSE i \in SvcIndex(l, id) : TRUE]
SvcSetStatus(l, id, s) ==
    [i \in 1..Len(l) |-> IF l[i].id = id THEN [l[i] EXCEPT !.status = s] ELSE l[i]]
SvcRemove(l, id) == SelectSeq(l, LAMBDA v : v.id # id)
SvcFreeIds(l) == Ids \ {l[i].id : i \in 1..Len(l)}
SvcNewVM(l, name) == VM(CHOOSE i \in SvcFreeIds(l) : TRUE, name, "created")

\* the responses the service may give to each request, in state l
GetResponses(l, id) ==
    Faulty \cup (IF SvcHas(l, id) THEN {Envelope(<<SvcFind(l, id)>>)} ELSE {})
ListResponses(l) == Faulty \cup {Envelope(<<l>>)}
VoidResponses(l, id) ==
    {TransportFailure, Rejected} \cup (IF SvcHas(l, id) THEN {Envelope(<<>>)} ELSE {})
CreateResponses(l, name) ==
    Faulty \cup (IF SvcFreeIds(l) # {} THEN {Envelope(<<SvcNewVM(l, name)>>)} ELSE {})

\* GET /health: no response at all, or a response with an HTTP status code
StatusCodes == {200, 299, 300, 503}
HealthResponses ==
    {[transport |-> TRUE, status |-> 0]}
        \cup {[transport |-> FALSE, status |-> c] : c \in StatusCodes}
\* what the service said: 2xx is the healthy answer
HealthClass(r) ==
    IF r.transport THEN "transport"
    ELSE IF r.status \in 200..299 THEN "healthy" ELSE "unhealthy"
HealthData(r) == IF r.transport THEN <<>> ELSE <<r.status>>

\* the service state after answering r
AfterCreate(l, r) == IF r.success /\ r.data # <<>> THEN Append(l, r.data[1]) ELSE l
AfterStart(l, id, r) == IF r.success THEN SvcSetStatus(l, id, "running") ELSE l
AfterStop(l, id, r) == IF r.success THEN SvcSetStatus(l, id, "stopped") ELSE l
AfterDelete(l, id, r) == IF r.success THEN SvcRemove(l, id) ELSE l

RespClass(r) ==
    IF r.transport THEN "transport"
    ELSE IF ~r.success THEN "reject"
    ELSE IF r.data = <<>> THEN "nodata" ELSE "ok"

\* the same for ApiResponse<()>, which carries no payload
VoidClass(r) ==
    IF r.transport THEN "transport"
    ELSE IF ~r.success THEN "reject" ELSE "ok"

----------------------------------------------------------------------------
(* VPSClient: decoding of each response into Result<T> *)

Ok(v) == [ok |-> TRUE, val |-> v, err |-> "none"]
Err(e) == [ok |-> FALSE, val |-> <<>>, err |-> e]

create_vm(r) ==
    IF r.transport THEN Err("transport")
    ELSE IF ~r.success THEN Err("api")
    ELSE IF r.data = <<>> THEN Err("nodata") ELSE Ok(r.data[1])

list_vms(r) ==
    IF r.transport THEN Err("transport")
    ELSE IF ~r.success THEN Err("api")
    ELSE Ok(IF r.data = <<>> THEN <<>> ELSE r.data[1])

get_vm(r) ==
    IF r.transport THEN Err("transport")
    ELSE IF ~r.success THEN Err("api")
    ELSE IF r.data = <<>> THEN Err("nodata") ELSE Ok(r.data[1])

void_call(r) ==
    IF r.transport THEN Err("transport")
    ELSE IF ~r.success THEN Err("api") ELSE Ok(<<>>)

start_vm(r) == void_call(r)
stop_vm(r) == void_call(r)
delete_vm(r) == void_call(r)

\* StatusCode::is_success
is_success(status) == status >= 200 /\ status < 300

\* variant: a response without a success status is raised as an error
health_check_raises(r) ==
    IF r.transport \/ ~is_success(r.status) THEN Err("transport") ELSE Ok(TRUE)

health_check(r) ==
    IF r.transport THEN Err("transport") ELSE Ok(is_success(r.status))

unwrap_or(res, d) == IF res.ok THEN res.val ELSE d

\* the name search of find_vm_by_name_or_id: the first record whose name is the token
NameMatches(l, tok) == {i \in 1..Len(l) : l[i].name = tok}
\* variant: the last match wins
FirstIndex_last(S) == CHOOSE i \in S : \A j \in S : i >= j
FirstIndex(S) == CHOOSE i \in S : \A j \in S : i <= j
\* variant: the name test is missing
find_by_name_any(l, tok) == IF l = <<>> THEN Err("notfound") ELSE Ok(l[1])
find_by_name(l, tok) ==
    IF NameMatches(l, tok) = {} THEN Err("notfound")
    ELSE Ok(l[FirstIndex(NameMatches(l, tok))])

----------------------------------------------------------------------------
(* The process *)

Init ==
    /\ vms \in VMLists
    /\ cmd \in Commands
    /\ h = cmd
    /\ pc = "main"
    /\ trace = <<>>
    /\ vm = NoVM
    /\ err = "none"
    /\ exit = -1
    /\ iter = 0

InConsole == cmd.verb = "console"

\* where a handler starts: the VM-addressed handlers start in the resolver's get_vm call
Entry(verb) ==
    CASE verb \in VmVerbs -> "r_get"
      [] verb = "console" -> "menu"
      [] OTHER -> verb

\* variant: main prints the error and still returns Ok
Exit_always_zero(e, tr) ==
    /\ pc' = "exited"
    /\ err' = e
    /\ exit' = 0
    /\ trace' = IF e = "none" THEN tr ELSE Append(tr, Out("error"))

\* the process ends: main returns Ok (exit 0) or Err (the error is printed, exit 1)
Exit(e, tr) ==
    /\ pc' = "exited"
    /\ err' = e
    /\ exit' = IF e = "none" THEN 0 ELSE 1
    /\ trace' = IF e = "none" THEN tr ELSE Append(tr, Out("error"))

\* variant: the console propagates a handler's error as main does
Return_propagates(e, tr) == Exit(e, tr)

\* a handler returns e to its caller: main propagates it with `?`, the console
\* prints it and goes on to the pause
Return(e, tr) ==
    IF InConsole
    THEN /\ pc' = "pause"
         /\ err' = e
         /\ exit' = exit
         /\ trace' = IF e = "none" THEN tr ELSE Append(tr, Out("error"))
    ELSE Exit(e, tr)

\* variant: a failed probe counts as healthy
Preflight_default_true(r) == unwrap_or(health_check(r), TRUE)

\* main: whether the pre-flight probe lets the command run
Preflight(r) == unwrap_or(health_check(r), FALSE)

\* main: the pre-flight probe (skipped by `health`), then the dispatch
Main ==
    /\ pc = "main"
    /\ UNCHANGED <<vms, cmd, h, vm, iter>>
    /\ \/ /\ cmd.verb = "health"
          /\ pc' = "health"
          /\ UNCHANGED <<trace, err, exit>>
       \/ /\ cmd.verb # "health"
          /\ \E r \in HealthResponses :
               LET tr == Append(trace, Http("health", "", <<>>, HealthClass(r))) IN
               IF Preflight(r)
               THEN /\ pc' = Entry(cmd.verb)
                    /\ trace' = tr
                    /\ UNCHANGED <<err, exit>>
               ELSE /\ pc' = "exited"
                    /\ exit' = 1
                    /\ err' = "connect"
                    /\ trace' = Append(tr, Out("cannot_connect"))

\* variant: the lower bound of the cpu check is missing
ValidateFlags_no_lower(cpu, memory, disk) ==
    IF ~(cpu <= CpuMax) THEN "validation"
    ELSE IF ~(memory >= MemMin /\ memory <= MemMax) THEN "validation"
    ELSE IF ~(disk >= DiskMin /\ disk <= DiskMax) THEN "validation"
    ELSE "none"

\* handle_create: the checks of the flag values
ValidateFlags(cpu, memory, disk) ==
    IF ~(cpu >= CpuMin /\ cpu <= CpuMax) THEN "validation"
    ELSE IF ~(memory >= MemMin /\ memory <= MemMax) THEN "validation"
    ELSE IF ~(disk >= DiskMin /\ disk <= DiskMax) THEN "validation"
    ELSE "none"

\* handle_create: the validators of the interactive prompts
PromptCpuOk(v) == v >= CpuMin /\ v <= CpuMax
PromptMemOk(v) == v >= MemMin /\ v <= MemMax
\* variant: the disk validator forgets the lower bound
PromptDiskOk_no_lower(v) == v <= DiskMax
PromptDiskOk(v) == v >= DiskMin /\ v <= DiskMax

\* handle_create, from the request on: the create_vm call and the report
SendCreate(name, cpu, memory, disk, tr) ==
    \E r \in CreateResponses(vms, name) :
        /\ vms' = AfterCreate(vms, r)
        /\ vm' = unwrap_or(create_vm(r), NoVM)
        /\ Return(create_vm(r).err,
                  LET t == Append(tr, Http("createVM", "", <<cpu, memory, disk>>, RespClass(r)))
                  IN IF create_vm(r).ok THEN Append(t, Out("created")) ELSE t)

HandleCreate ==
    /\ pc = "create"
    /\ UNCHANGED <<cmd, h, iter>>
    /\ \/ /\ h.interactive
          /\ UNCHANGED <<vms, vm>>
          /\ Return("prompt", Append(trace, In("create_prompts", "failed")))
       \/ /\ h.interactive
          /\ \E c \in {v \in CpuInputs : PromptCpuOk(v)},
                m \in {v \in MemInputs : PromptMemOk(v)},
                d \in {v \in DiskInputs : PromptDiskOk(v)} :
               SendCreate(h.name, c, m, d, Append(trace, In("create_prompts", "answered")))
       \/ /\ ~h.interactive
          /\ ValidateFlags(h.cpu, h.memory, h.disk) # "none"
          /\ UNCHANGED <<vms, vm>>
          /\ Return(ValidateFlags(h.cpu, h.memory, h.disk), trace)
       \/ /\ ~h.interactive
          /\ ValidateFlags(h.cpu, h.memory, h.disk) = "none"
          /\ SendCreate(h.name, h.cpu, h.memory, h.disk, trace)

\* str::eq_ignore_ascii_case, on the status strings of the model
Lower(s) ==
    CASE s = "Running" -> "running"
      [] s = "STOPPED" -> "stopped"
      [] OTHER -> s
\* variant: the statuses are compared as they are written
eq_ignore_ascii_case_exact(a, b) == a = b

eq_ignore_ascii_case(a, b) == Lower(a) = Lower(b)

FilterByStatus(l, f) ==
    IF f # NoFilter THEN SelectSeq(l, LAMBDA v : eq_ignore_ascii_case(v.status, f)) ELSE l

IdsOf(l) == [i \in 1..Len(l) |-> l[i].id]
Listed(l) == [k |-> "out", op |-> "listed", id |-> "", data |-> IdsOf(l), res |-> ""]

HandleList ==
    /\ pc = "list"
    /\ UNCHANGED <<vms, cmd, h, vm, iter>>
    /\ \E r \in ListResponses(vms) :
         LET res == list_vms(r)
             tr == Append(trace, Http("listVMs", "", <<>>, RespClass(r)))
             shown == FilterByStatus(res.val, h.status)
         IN IF ~res.ok THEN Return(res.err, tr)
            ELSE IF res.val = <<>> THEN Return("none", Append(tr, Out("no_instances")))
            ELSE IF shown = <<>> THEN Return("none", Append(tr, Out("no_match")))
            ELSE Return("none", Append(tr, Listed(shown)))

\* a handler goes on to its mutating call
Proceed(to, tr) ==
    /\ pc' = to
    /\ trace' = tr
    /\ UNCHANGED <<err, exit>>

\* what each VM-addressed handler does with the record v the resolver returned,
\* up to its mutating call
handle_get(v, tr) == Return("none", Append(tr, Out("details")))

\* variant: the status check is missing
handle_start_unchecked(v, tr) == Proceed("start_call", tr)

\* variant: the status is compared without regard to letter case
handle_start_ignores_case(v, tr) ==
    IF eq_ignore_ascii_case(v.status, "running")
    THEN Return("none", Append(tr, Out("already_running")))
    ELSE Proceed("start_call", tr)

handle_start(v, tr) ==
    IF v.status = "running"
    THEN Return("none", Append(tr, Out("already_running")))
    ELSE Proceed("start_call", tr)

\* variant: the status check of handle_stop is missing
handle_stop_unchecked(v, tr) ==
    IF h.force THEN Proceed("stop_call", tr)
    ELSE \E answer \in {"yes", "no", "failed"} :
           LET t == Append(tr, In("confirm", answer)) IN
           IF answer = "failed" THEN Return("prompt", t)
           ELSE IF answer = "no" THEN Return("none", Append(t, Out("cancelled")))
           ELSE Proceed("stop_call", t)

\* variant: only a failed prompt keeps the VM running
handle_stop_ignores_answer(v, tr) ==
    IF v.status = "stopped"
    THEN Return("none", Append(tr, Out("already_stopped")))
    ELSE IF h.force THEN Proceed("stop_call", tr)
    ELSE \E answer \in {"yes", "no", "failed"} :
           LET t == Append(tr, In("confirm", answer)) IN
           IF answer = "failed" THEN Return("prompt", t)
           ELSE Proceed("stop_call", t)

handle_stop(v, tr) ==
    IF v.status = "stopped"
    THEN Return("none", Append(tr, Out("already_stopped")))
    ELSE IF h.force THEN Proceed("stop_call", tr)
    ELSE \E answer \in {"yes", "no", "failed"} :
           LET t == Append(tr, In("confirm", answer)) IN
           IF answer = "failed" THEN Return("prompt", t)
           ELSE IF answer = "no" THEN Return("none", Append(t, Out("cancelled")))
           ELSE Proceed("stop_call", t)

\* variant: only a failed prompt stops the deletion
handle_delete_ignores_answer(v, tr) ==
    IF h.force THEN Proceed("delete_call", tr)
    ELSE \E answer \in {"yes", "no", "failed"} :
           LET t == Append(Append(tr, Out("warning")), In("confirm", answer)) IN
           IF answer = "failed" THEN Return("prompt", t)
           ELSE Proceed("delete_call", t)

\* variant: the warning is not printed
handle_delete_no_warning(v, tr) ==
    IF h.force THEN Proceed("delete_call", tr)
    ELSE \E answer \in {"yes", "no", "failed"} :
           LET t == Append(tr, In("confirm", answer)) IN
           IF answer = "failed" THEN Return("prompt", t)
           ELSE IF answer = "no" THEN Return("none", Append(t, Out("cancelled")))
           ELSE Proceed("delete_call", t)

handle_delete(v, tr) ==
    IF h.force THEN Proceed("delete_call", tr)
    ELSE \E answer \in {"yes", "no", "failed"} :
           LET t == Append(Append(tr, Out("warning")), In("confirm", answer)) IN
           IF answer = "failed" THEN Return("prompt", t)
           ELSE IF answer = "no" THEN Return("none", Append(t, Out("cancelled")))
           ELSE Proceed("delete_call", t)

AfterResolve(v, tr) ==
    /\ vm' = v
    /\ CASE h.verb = "get" -> handle_get(v, tr)
         [] h.verb = "start" -> handle_start(v, tr)
         [] h.verb = "stop" -> handle_stop(v, tr)
         [] h.verb = "delete" -> handle_delete(v, tr)

\* variant: the record of the direct lookup is dropped and the name search runs
ResolveGet_always_lists ==
    /\ pc = "r_get"
    /\ UNCHANGED <<vms, cmd, h, iter>>
    /\ \E r \in GetResponses(vms, h.id) :
         /\ pc' = "r_list"
         /\ trace' = Append(trace, Http("getVM", h.id, <<>>, RespClass(r)))
         /\ UNCHANGED <<vm, err, exit>>

\* variant: a transport failure of the direct lookup is returned to the caller
ResolveGet_returns_transport ==
    /\ pc = "r_get"
    /\ UNCHANGED <<vms, cmd, h, iter>>
    /\ \E r \in GetResponses(vms, h.id) :
         LET res == get_vm(r)
             tr == Append(trace, Http("getVM", h.id, <<>>, RespClass(r)))
         IN IF res.ok THEN AfterResolve(res.val, tr)
            ELSE IF res.err = "transport"
            THEN /\ vm' = vm
                 /\ Return(res.err, tr)
            ELSE /\ pc' = "r_list"
                 /\ trace' = tr
                 /\ UNCHANGED <<vm, err, exit>>

\* find_vm_by_name_or_id, first half: the direct lookup
ResolveGet ==
    /\ pc = "r_get"
    /\ UNCHANGED <<vms, cmd, h, iter>>
    /\ \E r \in GetResponses(vms, h.id) :
         LET res == get_vm(r)
             tr == Append(trace, Http("getVM", h.id, <<>>, RespClass(r)))
         IN IF res.ok THEN AfterResolve(res.val, tr)
            ELSE /\ pc' = "r_list"
                 /\ trace' = tr
                 /\ UNCHANGED <<vm, err, exit>>

\* variant: a failed search by name is tried a second time
ResolveList_retries ==
    /\ pc = "r_list"
    /\ UNCHANGED <<vms, cmd, h, iter>>
    /\ \E r \in ListResponses(vms) :
         LET res == list_vms(r)
             tr == Append(trace, Http("listVMs", "", <<>>, RespClass(r)))
         IN IF ~res.ok /\ Cardinality(Calls(trace, "listVMs")) = 0
            THEN /\ pc' = "r_list"
                 /\ trace' = tr
                 /\ UNCHANGED <<vm, err, exit>>
            ELSE IF ~res.ok
            THEN /\ vm' = vm
                 /\ Return(res.err, tr)
            ELSE IF find_by_name(res.val, h.id).ok
            THEN AfterResolve(find_by_name(res.val, h.id).val, tr)
            ELSE /\ vm' = vm
                 /\ Return("notfound", tr)

\* find_vm_by_name_or_id, second half: the search by name
ResolveList ==
    /\ pc = "r_list"
    /\ UNCHANGED <<vms, cmd, h, iter>>
    /\ \E r \in ListResponses(vms) :
         LET res == list_vms(r)
             tr == Append(trace, Http("listVMs", "", <<>>, RespClass(r)))
         IN IF ~res.ok
            THEN /\ vm' = vm
                 /\ Return(res.err, tr)
            ELSE IF find_by_name(res.val, h.id).ok
            THEN AfterResolve(find_by_name(res.val, h.id).val, tr)
            ELSE /\ vm' = vm
                 /\ Return("notfound", tr)

\* variant: success is declared without the grace interval
StartCall_no_wait ==
    /\ pc = "start_call"
    /\ UNCHANGED <<cmd, h, vm, iter>>
    /\ \E r \in VoidResponses(vms, vm.id) :
         LET res == start_vm(r)
             tr == Append(trace, Http("startVM", vm.id, <<>>, VoidClass(r)))
         IN /\ vms' = AfterStart(vms, vm.id, r)
            /\ IF ~res.ok THEN Return(res.err, tr)
               ELSE Return("none", Append(tr, Out("started")))

\* handle_start, from the start_vm call on
StartCall ==
    /\ pc = "start_call"
    /\ UNCHANGED <<cmd, h, vm, iter>>
    /\ \E r \in VoidResponses(vms, vm.id) :
         LET res == start_vm(r)
             tr == Append(trace, Http("startVM", vm.id, <<>>, VoidClass(r)))
         IN /\ vms' = AfterStart(vms, vm.id, r)
            /\ IF ~res.ok THEN Return(res.err, tr)
               ELSE Return("none",
                           Append(IF h.wait THEN Append(tr, Out("sleep")) ELSE tr,
                                  Out("started")))

\* handle_stop, from the stop_vm call on
StopCall ==
    /\ pc = "stop_call"
    /\ UNCHANGED <<cmd, h, vm, iter>>
    /\ \E r \in VoidResponses(vms, vm.id) :
         LET res == stop_vm(r)
             tr == Append(trace, Http("stopVM", vm.id, <<>>, VoidClass(r)))
         IN /\ vms' = AfterStop(vms, vm.id, r)
            /\ IF ~res.ok THEN Return(res.err, tr)
               ELSE Return("none", Append(tr, Out("stopped")))

\* variant: the request is addressed to the token the operator gave
DeleteCall_raw_token ==
    /\ pc = "delete_call"
    /\ UNCHANGED <<cmd, h, vm, iter>>
    /\ \E r \in VoidResponses(vms, h.id) :
         LET res == delete_vm(r)
             tr == Append(trace, Http("deleteVM", h.id, <<>>, VoidClass(r)))
         IN /\ vms' = AfterDelete(vms, h.id, r)
            /\ IF ~res.ok THEN Return(res.err, tr)
               ELSE Return("none", Append(tr, Out("deleted")))

\* handle_delete, from the delete_vm call on
DeleteCall ==
    /\ pc = "delete_call"
    /\ UNCHANGED <<cmd, h, vm, iter>>
    /\ \E r \in VoidResponses(vms, vm.id) :
         LET res == delete_vm(r)
             tr == Append(trace, Http("deleteVM", vm.id, <<>>, VoidClass(r)))
         IN /\ vms' = AfterDelete(vms, vm.id, r)
            /\ IF ~res.ok THEN Return(res.err, tr)
               ELSE Return("none", Append(tr, Out("deleted")))

HandleHealth ==
    /\ pc = "health"
    /\ UNCHANGED <<vms, cmd, h, vm, iter>>
    /\ \E r \in HealthResponses :
         LET res == health_check(r)
             tr == Append(trace, Http("health", "", HealthData(r), HealthClass(r)))
         IN IF ~res.ok THEN Return(res.err, tr)
            ELSE IF res.val THEN Return("none", Append(tr, Out("healthy")))
            ELSE Return("unhealthy", Append(tr, Out("not_responding")))

----------------------------------------------------------------------------
(* handle_console *)

Actions == <<"list", "create", "start", "stop", "delete", "get", "health", "exit">>

\* the handler call each menu entry leads to
ConsoleFrame(a) ==
    CASE a = "create" -> [Frame("create") EXCEPT !.interactive = TRUE]
      [] a = "start" -> [Frame("start") EXCEPT !.wait = TRUE]
      [] OTHER -> Frame(a)

\* the VM-addressed entries first list the VMs for the selection menu
ConsoleEntry(a) == IF a \in VmVerbs THEN "c_list" ELSE a

\* the top of the loop: the menu and the operator's selection
ConsoleMenu ==
    /\ pc = "menu"
    /\ UNCHANGED <<vms, cmd>>
    /\ \/ /\ Exit("prompt", Append(trace, In("select_action", "failed")))
          /\ UNCHANGED <<h, vm, iter>>
       \/ /\ Exit("none", Append(Append(trace, In("select_action", "exit")), Out("goodbye")))
          /\ UNCHANGED <<h, vm, iter>>
       \/ /\ iter < MaxIter
          /\ \E i \in 1..7 :
               /\ h' = ConsoleFrame(Actions[i])
               /\ pc' = ConsoleEntry(Actions[i])
               /\ trace' = <<trace[1], In("select_action", Actions[i])>>
          /\ iter' = iter + 1
          /\ vm' = NoVM
          /\ err' = "none"
          /\ exit' = exit

\* variant: the test for an empty list is missing and the handler is entered anyway
ConsoleSelectVm_no_empty_check ==
    /\ pc = "c_list"
    /\ UNCHANGED <<vms, cmd, vm, iter>>
    /\ \E r \in ListResponses(vms) :
         LET l == unwrap_or(list_vms(r), <<>>)
             tr == Append(trace, Http("listVMs", "", <<>>, RespClass(r)))
         IN \/ /\ Exit("prompt", Append(tr, In("select_vm", "failed")))
               /\ h' = h
            \/ \E i \in 1..(IF l = <<>> THEN 1 ELSE Len(l)) :
                 /\ h' = [h EXCEPT !.id = IF l = <<>> THEN "" ELSE l[i].id]
                 /\ pc' = "r_get"
                 /\ trace' = Append(tr, In("select_vm", "chosen"))
                 /\ UNCHANGED <<err, exit>>

\* variant: the handler works on the record of the menu's list instead of resolving the id
ConsoleSelectVm_uses_menu_record ==
    /\ pc = "c_list"
    /\ UNCHANGED <<vms, cmd, iter>>
    /\ \E r \in ListResponses(vms) :
         LET l == unwrap_or(list_vms(r), <<>>)
             tr == Append(trace, Http("listVMs", "", <<>>, RespClass(r)))
         IN IF l = <<>>
            THEN /\ pc' = "menu"
                 /\ trace' = Append(tr, Out("no_instances"))
                 /\ h' = cmd
                 /\ UNCHANGED <<vm, err, exit>>
            ELSE \/ /\ Exit("prompt", Append(tr, In("select_vm", "failed")))
                    /\ UNCHANGED <<h, vm>>
                 \/ \E i \in 1..Len(l) :
                      /\ h' = [h EXCEPT !.id = l[i].id]
                      /\ AfterResolve(l[i], Append(tr, In("select_vm", "chosen")))

\* start, stop, delete, details: list the VMs, let the operator pick one, call the handler
ConsoleSelectVm ==
    /\ pc = "c_list"
    /\ UNCHANGED <<vms, cmd, vm, iter>>
    /\ \E r \in ListResponses(vms) :
         LET l == unwrap_or(list_vms(r), <<>>)
             tr == Append(trace, Http("listVMs", "", <<>>, RespClass(r)))
         IN IF l = <<>>
            THEN /\ pc' = "menu"
                 /\ trace' = Append(tr, Out("no_instances"))
                 /\ h' = cmd
                 /\ UNCHANGED <<err, exit>>
            ELSE \/ /\ Exit("prompt", Append(tr, In("select_vm", "failed")))
                    /\ h' = h
                 \/ \E i \in 1..Len(l) :
                      /\ h' = [h EXCEPT !.id = l[i].id]
                      /\ pc' = "r_get"
                      /\ trace' = Append(tr, In("select_vm", "chosen"))
                      /\ UNCHANGED <<err, exit>>

\* the pause before the menu is drawn again; the handler's frame is gone
ConsolePause ==
    /\ pc = "pause"
    /\ pc' = "menu"
    /\ trace' = Append(trace, In("pause", ""))
    /\ h' = cmd
    /\ vm' = NoVM
    /\ UNCHANGED <<vms, cmd, err, exit, iter>>

----------------------------------------------------------------------------

Next ==
    \/ Main
    \/ HandleCreate
    \/ HandleList
    \/ ResolveGet
    \/ ResolveList
    \/ StartCall
    \/ StopCall
    \/ DeleteCall
    \/ HandleHealth
    \/ ConsoleMenu
    \/ ConsoleSelectVm
    \/ ConsolePause

Spec == Init /\ [][Next]_vars

----------------------------------------------------------------------------
(* The service is shared: while a handler sits between its resolution and   *)
(* its mutating call (it awaits the confirmation, or its request is on the  *)
(* way), another client's start or stop may be served.  Changes made        *)
(* before the resolution are covered by the choice of the initial state.    *)

ActPcs == {"start_call", "stop_call", "delete_call"}

OtherClient ==
    /\ pc \in ActPcs
    /\ \E i \in 1..Len(vms) :
         \/ vms' = AfterStart(vms, vms[i].id, Envelope(<<>>))
         \/ vms' = AfterStop(vms, vms[i].id, Envelope(<<>>))
    /\ UNCHANGED <<cmd, h, pc, trace, vm, err, exit, iter>>

NextEnv ==
    \/ Next
    \/ OtherClient

SpecEnv == Init /\ [][NextEnv]_vars

----------------------------------------------------------------------------
(* Vocabulary of the properties *)

\* the handler call in progress has returned to its caller
Returned == pc \in {"exited", "pause"}
\* ... with Ok
ReturnedOk == Returned /\ err = "none" /\ (~InConsole => exit = 0)

NoMutation == \A i \in HttpCalls(trace) : trace[i].op \notin MutatingOps

\* the resolver was called by the handler in progress and has given its answer
ResolutionDone == h.verb \in VmVerbs /\ Calls(trace, "getVM") # {} /\ pc # "r_list"
GetIdx == CHOOSE i \in Calls(trace, "getVM") : TRUE
ListsAfterGet == {i \in Calls(trace, "listVMs") : i > GetIdx}
ListIdx == CHOOSE i \in ListsAfterGet : TRUE

Before(i, S) == \E j \in S : j < i

----------------------------------------------------------------------------
(* C1 *)

\* C1: when the VM resolved by handle_start has status `running`, the handler
\* issues no mutating call and returns Ok; when the VM resolved by handle_stop
\* has status `stopped`, the handler issues no mutating call, asks for no
\* confirmation (forced or not) and returns Ok.
C1_IdempotentNoOps ==
    /\ (h.verb = "start" /\ vm # NoVM /\ vm.status = "running")
          => (NoMutation /\ ReturnedOk /\ Outs(trace, "already_running") # {})
    /\ (h.verb = "stop" /\ vm # NoVM /\ vm.status = "stopped")
          => (NoMutation /\ ReturnedOk /\ Ins(trace, "confirm") = {}
              /\ Outs(trace, "already_stopped") # {})

\* `stop <id> --force` on a stopped VM has ended with the notice and exit 0
C1_Witness ==
    /\ cmd.verb = "stop" /\ cmd.force
    /\ vm.status = "stopped"
    /\ pc = "exited" /\ exit = 0

----------------------------------------------------------------------------
(* C2 *)

PayloadOps == {"createVM", "getVM", "listVMs"}

\* C2: a response with success=true and no payload makes createVM, getVM and
\* listVMs return an error: handle_create and handle_list then return that
\* error, the resolver's get_vm falls through to the name search, and the
\* resolver's list_vms ends the resolution with that error, never with
\* "not found" in an empty list.
C2_EnvelopeInvariant ==
    \A i \in HttpCalls(trace) :
        (trace[i].op \in PayloadOps /\ trace[i].res = "nodata") =>
            /\ (trace[i].op = "createVM" /\ Returned) => err = "nodata"
            /\ (trace[i].op = "getVM") => (pc = "r_list" \/ ListsAfterGet # {})
            /\ (trace[i].op = "listVMs" /\ h.verb = "list" /\ Returned) => err = "nodata"
            /\ (trace[i].op = "listVMs" /\ ResolutionDone /\ Returned) => err = "nodata"

----------------------------------------------------------------------------
(* C3 *)

InRange(f) ==
    /\ f.cpu \in 1..8
    /\ f.memory \in 128..8192
    /\ f.disk \in 1..100

\* C3 as stated: every run of `create` with a flag value out of range ends in
\* a validation error, and no HTTP request of any kind was made before it.
C3_NoCallBeforeValidation ==
    (cmd.verb = "create" /\ ~InRange(cmd)) =>
        /\ HttpCalls(trace) = {}
        /\ pc = "exited" => err = "validation"

\* C3, amended: a run of `create` without --interactive and with a flag value
\* out of range makes no HTTP request but main's one pre-flight probe; when
\* the probe is healthy the run ends in the validation error, otherwise in
\* the connection error; either way it exits non-zero.
C3_ValidationBeforeApiCalls ==
    (cmd.verb = "create" /\ ~cmd.interactive /\ ~InRange(cmd)) =>
        /\ \A i \in HttpCalls(trace) : i = 1 /\ trace[i].op = "health"
        /\ pc = "exited" =>
             /\ exit = 1
             /\ HttpCalls(trace) = {1}
             /\ err = (IF trace[1].res = "healthy" THEN "validation" ELSE "connect")

\* `create --memory 8193` has ended in the validation error after the probe
C3_Witness ==
    /\ cmd.verb = "create" /\ ~cmd.interactive
    /\ cmd.cpu = 1 /\ cmd.memory = 8193 /\ cmd.disk = 1
    /\ pc = "exited" /\ err = "validation"
    /\ trace[1].res = "healthy"

----------------------------------------------------------------------------
(* C4 *)

\* C4: every createVM request (flag path, prompt path, console) carries cpu in
\* 1..8, memory in 128..8192 and disk_size in 1..100; and a flag-path run with
\* in-range values whose handler has returned sent exactly one createVM
\* request, carrying those values.
C4_CreateRequestsInRange ==
    /\ \A i \in Calls(trace, "createVM") :
          /\ trace[i].data[1] \in 1..8
          /\ trace[i].data[2] \in 128..8192
          /\ trace[i].data[3] \in 1..100
    /\ (h.verb = "create" /\ ~h.interactive /\ InRange(h) /\ pc = "exited" /\ err # "connect")
          => /\ Cardinality(Calls(trace, "createVM")) = 1
             /\ \A i \in Calls(trace, "createVM") :
                   trace[i].data = <<h.cpu, h.memory, h.disk>>
             /\ err # "validation"

\* `create --cpu 8 --memory 128 --disk 100` has created the VM
C4_Witness ==
    /\ cmd.verb = "create" /\ ~cmd.interactive
    /\ cmd.cpu = 8 /\ cmd.memory = 128 /\ cmd.disk = 100
    /\ pc = "exited" /\ exit = 0
    /\ \E i \in Calls(trace, "createVM") : trace[i].res = "ok"

----------------------------------------------------------------------------
(* C5 *)

\* C5: for a command other than `health`, the first HTTP call is the probe,
\* every handler API call comes after a probe that returned healthy, and a
\* probe that is unhealthy or fails ends the process with exit 1 and no
\* further call; `health` makes no pre-flight probe, so exactly one probe in all.
C5_PreflightGate ==
    /\ (cmd.verb # "health" /\ pc # "main") =>
          /\ trace[1].k = "http" /\ trace[1].op = "health"
          /\ trace[1].res # "healthy" =>
                (pc = "exited" /\ exit = 1 /\ HttpCalls(trace) = {1})
    /\ cmd.verb # "health" =>
          \A i \in HttpCalls(trace) :
              trace[i].op \in HandlerOps =>
                  (i > 1 /\ trace[1].op = "health" /\ trace[1].res = "healthy")
    /\ cmd.verb = "health" =>
          /\ Cardinality(Calls(trace, "health")) <= 1
          /\ pc = "exited" => Cardinality(Calls(trace, "health")) = 1
          /\ \A i \in HttpCalls(trace) : trace[i].op = "health"

\* `start` against a service whose probe answers unhealthy has exited with 1
C5_Witness ==
    /\ cmd.verb = "start"
    /\ pc = "exited" /\ exit = 1
    /\ Len(trace) >= 1 /\ trace[1].op = "health" /\ trace[1].res = "unhealthy"

----------------------------------------------------------------------------
(* C6, C7, C8: the resolver *)

\* the records of the service whose name is the token, by position
Named(tok) == {i \in 1..Len(vms) : vms[i].name = tok}
FirstNamed(tok) == CHOOSE i \in Named(tok) : \A j \in Named(tok) : i <= j

\* the error a failed list_vms call gives
ListError(res) ==
    CASE res = "transport" -> "transport"
      [] res = "reject" -> "api"
      [] OTHER -> "notfound"

\* C6 as stated: a token that is the id of a VM of the service resolves to
\* that VM after one getVM call and no listVMs call.
C6_ResolvesById ==
    (ResolutionDone /\ NoMutation /\ SvcHas(vms, h.id)) =>
        /\ vm = SvcFind(vms, h.id)
        /\ Cardinality(Calls(trace, "getVM")) = 1
        /\ ListsAfterGet = {}

\* C6, amended: for a token that is the id of a VM of the service the resolver
\* makes one getVM call; when that call succeeds it returns that VM and makes
\* no listVMs call, also when another VM is named like the token; when the
\* call fails it makes one listVMs call and searches by name.
C6_ResolvesByIdWhenGetSucceeds ==
    (ResolutionDone /\ NoMutation /\ SvcHas(vms, h.id)) =>
        /\ Cardinality(Calls(trace, "getVM")) = 1
        /\ trace[GetIdx].id = h.id
        /\ trace[GetIdx].res = "ok" => (vm = SvcFind(vms, h.id) /\ ListsAfterGet = {})
        /\ trace[GetIdx].res # "ok" => Cardinality(ListsAfterGet) = 1

\* `delete i1`: i1 resolved by id though the VM listed first is named "i1"
C6_Witness ==
    /\ ResolutionDone /\ pc = "delete_call"
    /\ h.id = "i1" /\ Len(vms) = 2
    /\ vms[1].id = "i2" /\ vms[1].name = "i1" /\ vms[2].id = "i1"
    /\ vm = vms[2] /\ ListsAfterGet = {}

\* C7 as stated: a token that is no VM's id but the name of at least one VM
\* makes the resolver call listVMs exactly once and return the first VM of
\* the list with that name.
C7_ResolvesByName ==
    (ResolutionDone /\ NoMutation /\ ~SvcHas(vms, h.id) /\ Named(h.id) # {}) =>
        /\ Cardinality(ListsAfterGet) = 1
        /\ vm = vms[FirstNamed(h.id)]

\* C7, amended: for such a token the resolver calls listVMs exactly once; when
\* the call returns the list, the resolver returns the first VM of it with
\* that name; when the call fails or carries no list, the resolution fails.
C7_ResolvesByNameWhenListSucceeds ==
    (ResolutionDone /\ NoMutation /\ ~SvcHas(vms, h.id) /\ Named(h.id) # {}) =>
        /\ Cardinality(ListsAfterGet) = 1
        /\ trace[ListIdx].res = "ok" => vm = vms[FirstNamed(h.id)]
        /\ trace[ListIdx].res # "ok" =>
              (vm = NoVM /\ Returned /\ err = ListError(trace[ListIdx].res))

\* `get n` with two VMs named "n": the first of the list is shown
C7_Witness ==
    /\ ResolutionDone /\ cmd.verb = "get" /\ h.id = "n"
    /\ Len(vms) = 2 /\ vms[1].name = "n" /\ vms[2].name = "n"
    /\ vm = vms[1] /\ pc = "exited" /\ exit = 0

\* C8 as stated: whenever the resolution fails, it fails with the "not found"
\* error, a token that matches no id and no name fails to resolve, and a
\* `get` of it exits non-zero.
C8_FailsWithNotFound ==
    /\ (ResolutionDone /\ vm = NoVM) =>
          (Returned /\ err = "notfound" /\ (~InConsole => exit = 1))
    /\ (ResolutionDone /\ NoMutation /\ ~SvcHas(vms, h.id) /\ Named(h.id) = {})
          => vm = NoVM

\* C8, amended: a token that matches no id and no name fails to resolve; a
\* failed resolution has made one listVMs call and returns "not found" when
\* that call succeeded, and the call's own error when it failed; the command
\* then exits non-zero.
C8_FailsWithNotFoundOrListError ==
    /\ (ResolutionDone /\ vm = NoVM) =>
          /\ Returned
          /\ Cardinality(ListsAfterGet) = 1
          /\ err = ListError(trace[ListIdx].res)
          /\ ~InConsole => exit = 1
    /\ (ResolutionDone /\ NoMutation /\ ~SvcHas(vms, h.id) /\ Named(h.id) = {})
          => vm = NoVM

\* `get N` where a VM is named "n": rejected lookup, list without a match, exit 1
C8_Witness ==
    /\ cmd.verb = "get" /\ h.id = "N" /\ Named("n") # {}
    /\ pc = "exited" /\ exit = 1 /\ err = "notfound"
    /\ trace[GetIdx].res = "reject" /\ trace[ListIdx].res = "ok"

----------------------------------------------------------------------------
(* C9, C10: handle_delete *)

Confirmed(i) == \E j \in Ins(trace, "confirm") : j < i /\ trace[j].res = "yes"
Declined == \E j \in Ins(trace, "confirm") : trace[j].res = "no"

\* C9: handle_delete issues deleteVM only with the force flag or after the
\* operator confirmed; when the operator declines, no mutating call is
\* issued and the handler returns Ok.
C9_DeleteConfirmation ==
    /\ \A i \in Calls(trace, "deleteVM") : (h.verb = "delete" /\ h.force) \/ Confirmed(i)
    /\ pc = "delete_call" => (h.force \/ Confirmed(Len(trace) + 1))
    /\ (h.verb = "delete" /\ Declined) => (NoMutation /\ ReturnedOk)

\* `delete i1`, declined: the VM is still there and the exit code is 0
C9_Witness ==
    /\ cmd.verb = "delete" /\ ~cmd.force /\ Declined
    /\ pc = "exited" /\ exit = 0 /\ SvcHas(vms, vm.id)

\* C10 as stated: whenever handle_delete has resolved a VM, forced or not, the
\* warning is printed, and before deleteVM is issued.
C10_DeleteAlwaysWarns ==
    /\ (h.verb = "delete" /\ vm # NoVM) => Outs(trace, "warning") # {}
    /\ \A i \in Calls(trace, "deleteVM") : Before(i, Outs(trace, "warning"))

\* C10, amended: without the force flag handle_delete prints the warning once
\* it has resolved a VM, before the confirmation prompt and so before
\* deleteVM; with the force flag it prints no warning.
C10_DeleteWarnsUnlessForced ==
    /\ (h.verb = "delete" /\ vm # NoVM /\ ~h.force) =>
          /\ Outs(trace, "warning") # {}
          /\ \A j \in Ins(trace, "confirm") : Before(j, Outs(trace, "warning"))
          /\ \A i \in Calls(trace, "deleteVM") : Before(i, Outs(trace, "warning"))
    /\ (h.verb = "delete" /\ h.force) => Outs(trace, "warning") = {}

\* `delete i1`, confirmed: warning, prompt, deleteVM
C10_Witness ==
    /\ cmd.verb = "delete" /\ ~cmd.force
    /\ Outs(trace, "warning") # {}
    /\ \E i \in Calls(trace, "deleteVM") : trace[i].res = "ok"
    /\ pc = "exited" /\ exit = 0

----------------------------------------------------------------------------
(* C11: handle_stop *)

\* C11: for a resolved VM whose status is not `stopped`, handle_stop issues
\* stopVM only with the force flag or after the operator confirmed at the
\* prompt; when the operator declines, no stopVM (no mutating call at all) is
\* issued and the handler returns Ok.
C11_StopConfirmation ==
    /\ \A i \in Calls(trace, "stopVM") : (h.verb = "stop" /\ h.force) \/ Confirmed(i)
    /\ pc = "stop_call" =>
          /\ vm.status # "stopped"
          /\ h.force \/ Confirmed(Len(trace) + 1)
    /\ (h.verb = "stop" /\ Declined) =>
          (NoMutation /\ ReturnedOk /\ Outs(trace, "cancelled") # {})

\* `stop i1` on a running VM, declined: the VM still runs and the exit code is 0
C11_Witness ==
    /\ cmd.verb = "stop" /\ ~cmd.force /\ Declined
    /\ vm.status = "running" /\ SvcFind(vms, vm.id).status = "running"
    /\ pc = "exited" /\ exit = 0

----------------------------------------------------------------------------
(* C12: the console loop survives its handlers *)

\* the last answer the operator gave
LastIn(tr) == tr[CHOOSE i \in 1..Len(tr) : tr[i].k = "in" /\ \A j \in (i+1)..Len(tr) : tr[j].k # "in"]

\* the console's own selection prompts sit at the menu and at the VM choice
ConsolePromptPcs == {"menu", "c_list"}
\* where a command handler is running
HandlerPcs ==
    {"create", "list", "health", "r_get", "r_list", "start_call", "stop_call", "delete_call"}

\* C12: inside the console loop no step of a command handler ends the process,
\* whatever error the handler returns (rejection, transport failure, not
\* found, failed prompt inside the handler): the handler's error leads to the
\* pause.  The process ends only at one of the console's own selection
\* prompts: with exit 0 when "Exit" is selected, with the prompt's error when
\* the action selection or the VM selection fails.
C12_ConsoleLoopSurvives ==
    [][(InConsole /\ pc # "main") =>
          /\ (pc \in HandlerPcs) => pc' # "exited"
          /\ (pc \in HandlerPcs /\ err' # "none") =>
                (pc' = "pause" /\ trace'[Len(trace')] = Out("error"))
          /\ (pc' = "exited") =>
                \/ /\ pc = "menu"
                   /\ LastIn(trace') = In("select_action", "exit")
                   /\ exit' = 0 /\ err' = "none"
                \/ /\ pc = "menu"
                   /\ LastIn(trace') = In("select_action", "failed")
                   /\ exit' = 1 /\ err' = "prompt"
                \/ /\ pc = "c_list"
                   /\ LastIn(trace') = In("select_vm", "failed")
                   /\ exit' = 1 /\ err' = "prompt"]_vars

\* in the console a startVM call has failed in transport and the loop is at its pause
C12_Witness ==
    /\ InConsole /\ pc = "pause" /\ err = "transport"
    /\ \E i \in Calls(trace, "startVM") : trace[i].res = "transport"

----------------------------------------------------------------------------
(* C13: the console's state machine *)

\* C13: in the console the menu is drawn again only after the acknowledgment
\* pause: once an action has been selected, no step leads from the execution
\* of the action back to the menu without passing the pause, for any action
\* and any response of the service, an empty VM list included.
C13_PauseBeforeMenu ==
    [][(InConsole /\ pc' = "menu") => pc \in {"main", "pause"}]_vars

----------------------------------------------------------------------------
(* C14: what the console shows of an error *)

\* the menu entry selected in the iteration in progress
Selected == IF Len(trace) >= 2 /\ trace[2].op = "select_action" THEN trace[2].res ELSE ""
\* the listVMs call that fills the selection menu of that iteration
MenuListed == InConsole /\ Selected \in VmVerbs /\ Len(trace) >= 3
Failed(res) == res \in {"reject", "transport"}

\* C14: in the console every error is displayed as an error before the loop
\* goes on: an error a handler returned is printed before the pause, and a
\* rejection or transport failure of the listVMs call that fills the selection
\* menu is printed as an error too, never as the notice of an empty list.
C14_ConsoleShowsEveryError ==
    /\ (InConsole /\ pc = "pause" /\ err # "none") => trace[Len(trace)] = Out("error")
    /\ (MenuListed /\ Failed(trace[3].res)) =>
          /\ Outs(trace, "error") # {}
          /\ Outs(trace, "no_instances") = {}

----------------------------------------------------------------------------
(* C15: the console and an empty VM list *)

\* the list the console got for its selection menu is empty: the service has
\* no VM (none was deleted since), or the call failed and the default is used
EmptyFetched ==
    \/ trace[3].res # "ok"
    \/ vms = <<>> /\ \A i \in Calls(trace, "deleteVM") : trace[i].res # "ok"

\* C15: when the VM list fetched for the selection menu of start, stop, delete
\* or details is empty, the console prints the notice and goes back to the
\* menu without entering the handler: that iteration has no VM selection, no
\* getVM and no state-mutating call.  With a non-empty list no notice is printed.
C15_EmptyListSkipsHandler ==
    /\ (MenuListed /\ EmptyFetched) =>
          /\ trace[4] = Out("no_instances")
          /\ pc \in {"menu", "exited"}
          /\ h = cmd
          /\ Ins(trace, "select_vm") = {}
          /\ Calls(trace, "getVM") = {}
          /\ NoMutation
          /\ Cardinality(HttpCalls(trace)) = 2
    /\ (MenuListed /\ ~EmptyFetched) => Outs(trace, "no_instances") = {}

\* "Delete VPS" was selected while the service has no VM: notice, back at the menu
C15_Witness ==
    /\ MenuListed /\ Selected = "delete"
    /\ vms = <<>> /\ trace[3].res = "ok"
    /\ pc = "menu" /\ Outs(trace, "no_instances") # {}

----------------------------------------------------------------------------
(* C16: one chain of calls, no retry *)

\* the place of each operation in the chain of one command
Rank(op) ==
    CASE op = "health" -> 1
      [] op = "getVM" -> 2
      [] op = "listVMs" -> 3
      [] op \in MutatingOps -> 4

\* what is printed for a failure: main's report of the error, or of the failed probe
Reports == Outs(trace, "error") \cup Outs(trace, "cannot_connect")

----------------------------------------------------------------------------
(* C17: the status a handler acts on *)

\* a call of the resolver that returned VM records
Fetch(i) == trace[i].k = "http" /\ trace[i].op \in {"getVM", "listVMs"} /\ trace[i].res = "ok"

\* the call at i follows a fetch of the same handler invocation, with nothing
\* but the handler's own prompt and output in between
FetchedJustBefore(i) ==
    \E f \in 1..(i - 1) :
        /\ Fetch(f)
        /\ \A j \in (f + 1)..(i - 1) :
               trace[j].k # "http" /\ trace[j].op \notin {"select_action", "select_vm", "pause"}
        /\ InConsole => \E s \in Ins(trace, "select_vm") : s < f

\* C17: every startVM and stopVM call follows a fetch (getVM, or listVMs of
\* the name search) made by the same handler invocation, with no other call
\* and no menu step in between; in the console that fetch comes after the
\* operator's VM selection, so it is never the list that filled the menu nor
\* a fetch of an earlier iteration.  The record the handler is about to act
\* on is the one the service holds, and its status is the one the handler's
\* precondition was checked on.
C17_ActsOnFreshStatus ==
    /\ \A i \in Calls(trace, "startVM") \cup Calls(trace, "stopVM") : FetchedJustBefore(i)
    /\ pc \in {"start_call", "stop_call"} =>
          /\ FetchedJustBefore(Len(trace) + 1)
          /\ SvcHas(vms, vm.id) /\ vm = SvcFind(vms, vm.id)
          /\ pc = "start_call" => vm.status # "running"
          /\ pc = "stop_call" => vm.status # "stopped"

\* second iteration of the console: the VM stopped in the first one is started
C17_Witness ==
    /\ InConsole /\ iter = 2 /\ Selected = "start"
    /\ vm.status = "stopped"
    /\ \E i \in Calls(trace, "startVM") : trace[i].res = "ok" /\ trace[i - 1].op = "getVM"

----------------------------------------------------------------------------
(* C18: exit codes *)

\* the last thing printed: the result of a completed command, or a failure
Last == trace[Len(trace)]
SuccessOuts ==
    {"created", "listed", "no_instances", "no_match", "details", "already_running",
     "started", "already_stopped", "cancelled", "stopped", "deleted", "healthy", "goodbye"}
NoOpOuts == {"already_running", "already_stopped", "cancelled", "no_instances", "no_match"}
FailureOuts == {"error", "cannot_connect"}

\* the cases of exit code 0 and of a non-zero exit code that do not depend on
\* a failed API call
ExitCodeCases ==
    /\ exit \in {0, 1}
    /\ exit = 0 <=> (Last.k = "out" /\ Last.op \in SuccessOuts)
    /\ exit = 1 <=> (Last.k = "out" /\ Last.op \in FailureOuts)
    /\ (~InConsole /\ Last.op \in NoOpOuts) => exit = 0
    /\ (cmd.verb # "health" /\ trace[1].res # "healthy") => (exit = 1 /\ err = "connect")
    /\ (cmd.verb = "health" /\ trace[1].res # "healthy") => exit = 1
    /\ (cmd.verb = "create" /\ ~cmd.interactive /\ ~InRange(cmd)) => exit = 1
    /\ (~InConsole /\ ResolutionDone /\ vm = NoVM) => exit = 1
    /\ (InConsole /\ trace[1].res = "healthy") =>
          (exit = 1 <=> (LastIn(trace).res = "failed"
                         /\ LastIn(trace).op \in {"select_action", "select_vm"}))

\* C18 as stated: the cases above, and a non-zero exit code whenever the
\* service rejected (success=false) any API call of the command.
C18_ExitCodes ==
    pc = "exited" =>
        /\ ExitCodeCases
        /\ (~InConsole /\ \E i \in HttpCalls(trace) : trace[i].res = "reject") => exit # 0

\* C18, amended: the exit code is 0 exactly when the command completed (no-op
\* start and stop, declined stop and delete and empty list results included)
\* and 1 after a failed pre-flight probe, an unhealthy or unreachable service
\* on `health`, a validation error, a failed resolution, and a rejection or
\* transport failure of any API call but the resolver's getVM, whose failure
\* the search by name recovers from.
C18_ExitCodesAfterRecovery ==
    pc = "exited" =>
        /\ ExitCodeCases
        /\ (~InConsole /\ \E i \in HttpCalls(trace) :
                             trace[i].op # "getVM" /\ trace[i].res \in {"reject", "transport"})
              => exit = 1
        /\ (~InConsole /\ \E i \in Calls(trace, "getVM") : trace[i].res # "ok") =>
              (exit = 0 <=> (trace[ListIdx].res = "ok" /\ vm # NoVM /\ Last.op \in SuccessOuts))

\* `get n`: the service rejects the lookup of "n" as an id, the name is found, exit 0
C18_Witness ==
    /\ cmd.verb = "get" /\ cmd.id = "n"
    /\ pc = "exited" /\ exit = 0 /\ Last = Out("details")
    /\ trace[GetIdx].res = "reject"

----------------------------------------------------------------------------
(* C19: health_check *)

\* the probe of handle_health: the last health call of the trace
HealthIdx == CHOOSE i \in Calls(trace, "health") : \A j \in Calls(trace, "health") : j <= i

\* C19: health_check raises an error only when no response arrives; for every
\* response it returns a boolean, true exactly for a status code from 200 to
\* 299.  So handle_health, which propagates the error and turns `false` into
\* its own "not responding" failure, ends with the transport error exactly
\* when the probe got no response, with the healthy notice exactly for a 2xx
\* response, and with "not responding" for any other response.
C19_HealthCheckReturnsBoolean ==
    (h.verb = "health" /\ Returned) =>
        LET e == trace[HealthIdx] IN
        /\ err = "transport" <=> e.data = <<>>
        /\ e.data # <<>> =>
              /\ err \in {"none", "unhealthy"}
              /\ err = "none" <=> (e.data[1] >= 200 /\ e.data[1] <= 299)
              /\ err = "none" <=> Outs(trace, "healthy") # {}
              /\ err = "unhealthy" <=> Outs(trace, "not_responding") # {}

\* `health` against a service answering 503: "not responding", exit 1, no transport error
C19_Witness ==
    /\ cmd.verb = "health" /\ pc = "exited"
    /\ trace[1].data = <<503>>
    /\ err = "unhealthy" /\ exit = 1

----------------------------------------------------------------------------
(* C20: handle_list *)

\* the statuses a filter stands for, letter case aside
Matching(f) ==
    CASE f = "running" -> {"running", "Running"}
      [] f = "STOPPED" -> {"stopped"}
      [] f = NoFilter -> Statuses

\* the ids of the VMs of l a filter lets through, in the order of l
Expected(l, f) == IdsOf(SelectSeq(l, LAMBDA v : v.status \in Matching(f)))

\* C20: handle_list issues exactly one listVMs call.  When the call returns
\* the list, the handler shows exactly the VMs whose status equals the filter
\* up to letter case (all of them without a filter), in the order of the
\* list; when the list is empty, or no VM passes the filter, it prints the
\* notice of that case instead and returns Ok.  No other call is issued.
\* (A command whose pre-flight probe failed never enters the handler.)
C20_ListShowsMatching ==
    (h.verb = "list" /\ Returned /\ err # "connect") =>
        /\ Cardinality(Calls(trace, "listVMs")) = 1
        /\ Calls(trace, "getVM") = {} /\ NoMutation
        /\ \A i \in Calls(trace, "listVMs") : trace[i].res = "ok" =>
              /\ err = "none" /\ (~InConsole => exit = 0)
              /\ vms = <<>> => Last = Out("no_instances")
              /\ (vms # <<>> /\ Expected(vms, h.status) = <<>>) => Last = Out("no_match")
              /\ Expected(vms, h.status) # <<>> =>
                    (Last.op = "listed" /\ Last.data = Expected(vms, h.status))

\* `list --status running` shows the VM whose status is written "Running" and not the stopped one
C20_Witness ==
    /\ cmd.verb = "list" /\ cmd.status = "running" /\ pc = "exited" /\ exit = 0
    /\ Len(vms) = 2 /\ vms[1].status = "stopped" /\ vms[2].status = "Running"
    /\ Last.op = "listed" /\ Last.data = <<vms[2].id>>

----------------------------------------------------------------------------
(* C21: the resolver's fallback *)

\* C21: whatever made the direct getVM lookup fail (rejection, success
\* without payload, transport failure), the resolver goes on to the listVMs
\* name search: the failed getVM is the last event only while the search is
\* about to start, and otherwise the next event is the listVMs call.  The
\* error of the getVM call is never what the resolver returns: a resolution
\* that fails returns what the name search ended with.
C21_FallbackOnAnyFailure ==
    \A i \in Calls(trace, "getVM") :
        trace[i].res # "ok" =>
            /\ trace[i].res \in {"reject", "nodata", "transport"}
            /\ IF i = Len(trace) THEN pc = "r_list" /\ err = "none"
               ELSE trace[i + 1].k = "http" /\ trace[i + 1].op = "listVMs"
            /\ (i < Len(trace) /\ h.verb \in VmVerbs /\ vm = NoVM) =>
                  (Returned /\ err = ListError(trace[i + 1].res))

\* `start i1`: the lookup fails in transport, the search by name finds a VM named "i1",
\* the VM is started
C21_Witness ==
    /\ cmd.verb = "start" /\ cmd.id = "i1" /\ pc = "exited" /\ exit = 0
    /\ \E i \in Calls(trace, "getVM") : trace[i].res = "transport"
    /\ \E i \in Calls(trace, "startVM") : trace[i].res = "ok"

----------------------------------------------------------------------------
(* C22: the state check when other clients change the service *)

\* the step that sends the request of a mutating call
Sends(at) == pc = at /\ Len(trace') > Len(trace)
\* the status the service holds for the resolved VM
StatusAtService == IF SvcHas(vms, vm.id) THEN SvcFind(vms, vm.id).status ELSE ""

\* C22 as stated: with other clients changing the service between resolve and
\* act, startVM is never sent for a VM that is `running` at the service when
\* the call is sent, and stopVM never for a VM that is `stopped` then.
C22_NoRedundantCallAtSend ==
    [][/\ Sends("start_call") => StatusAtService # "running"
       /\ Sends("stop_call") => StatusAtService # "stopped"]_vars

\* C22, amended: the check is made on the record the resolver fetched, which
\* is the service's record at the time of the fetch: startVM is never sent
\* when the fetched status was `running`, stopVM never when it was `stopped`.
\* What other clients do after the fetch is not seen.
C22_NoRedundantCallOnFetchedStatus ==
    [][/\ Sends("start_call") => vm.status # "running"
       /\ Sends("stop_call") => vm.status # "stopped"
       /\ (pc \in {"r_get", "r_list"} /\ vm' # NoVM) =>
             (SvcHas(vms, vm'.id) /\ vm' = SvcFind(vms, vm'.id))
       /\ (pc \in ActPcs) => vm' = vm]_vars

\* handle_start has found the VM stopped and is about to send startVM; another
\* client has started the VM in the meantime
C22_Witness ==
    /\ h.verb = "start" /\ pc = "start_call"
    /\ vm.status = "stopped"
    /\ StatusAtService = "running"

----------------------------------------------------------------------------
(* C23: start with wait *)

\* C23: handle_start declares success only after a startVM call that
\* succeeded and, when `wait` was requested, only after the grace interval
\* that follows the call (and without `wait` it does not sleep); startVM is
\* the last HTTP call of the handler; when startVM fails, the handler neither
\* sleeps nor declares success and returns the error of the call.
C23_StartWithWait ==
    /\ h.verb = "start" =>
          /\ \A i \in Outs(trace, "started") :
                /\ \E s \in Calls(trace, "startVM") : s < i /\ trace[s].res = "ok"
                /\ h.wait <=> (trace[i - 1] = Out("sleep") /\ trace[i - 2].op = "startVM")
                /\ ~h.wait => trace[i - 1].op = "startVM"
          /\ \A i \in Outs(trace, "sleep") : h.wait /\ trace[i - 1].op = "startVM"
          /\ \A s \in Calls(trace, "startVM") :
                /\ \A j \in HttpCalls(trace) : j <= s
                /\ Returned
                /\ trace[s].res = "ok" => (err = "none" /\ Outs(trace, "started") # {})
                /\ trace[s].res # "ok" =>
                      /\ Outs(trace, "started") = {} /\ Outs(trace, "sleep") = {}
                      /\ err = (IF trace[s].res = "transport" THEN "transport" ELSE "api")
                      /\ trace[Len(trace)] = Out("error")

\* `start i1 --wait` on a stopped VM: startVM, the grace interval, then the success message
C23_Witness ==
    /\ cmd.verb = "start" /\ cmd.wait /\ pc = "exited" /\ exit = 0
    /\ \E s \in Calls(trace, "startVM") :
          trace[s].res = "ok" /\ trace[s + 1] = Out("sleep") /\ trace[s + 2] = Out("started")

----------------------------------------------------------------------------
(* C24: the target of a mutating call *)

TargetedOps == {"startVM", "stopVM", "deleteVM"}
Targeted == {i \in HttpCalls(trace) : trace[i].op \in TargetedOps}

\* the resolver's calls of the handler invocation in progress
Resolving == {i \in HttpCalls(trace) : trace[i].op = "getVM" \/ (trace[i].op = "listVMs" /\ i > GetIdx)}

\* C24: a startVM, stopVM or deleteVM call is issued only after the resolver
\* of the same handler invocation returned a record: by getVM, whose record
\* has the token as its id, or by the name search, whose record has the token
\* as its name.  The call is addressed to the id of that record, which is an
\* id of the service also when the token is a name; when the resolution
\* fails, no mutating call is issued.
C24_MutationTarget ==
    /\ \A i \in Targeted :
          /\ trace[i].id \in Ids
          /\ Calls(trace, "getVM") # {} /\ GetIdx < i
          /\ \E f \in Resolving : f < i /\ Fetch(f) /\ \A g \in Resolving : g <= f
          /\ vm # NoVM =>
                /\ trace[i].id = vm.id
                /\ \/ trace[GetIdx].res = "ok" /\ vm.id = h.id /\ ListsAfterGet = {}
                   \/ trace[GetIdx].res # "ok" /\ trace[ListIdx].res = "ok" /\ vm.name = h.id
    /\ pc \in ActPcs => (vm # NoVM /\ \E f \in Resolving : Fetch(f))
    /\ (ResolutionDone /\ vm = NoVM) => NoMutation

\* `delete i1`: the lookup by id is rejected, the VM named "i1" has the id "i2", and
\* deleteVM goes to "i2"
C24_Witness ==
    /\ cmd.verb = "delete" /\ cmd.id = "i1" /\ pc = "exited"
    /\ vm.name = "i1" /\ vm.id = "i2"
    /\ \E i \in Calls(trace, "deleteVM") : trace[i].id = "i2" /\ trace[i].res = "ok"

----------------------------------------------------------------------------
(* C25: the statuses are an open set *)

\* the handler in progress has issued the call, or is about to
Issues(at, op) == pc = at \/ Calls(trace, op) # {}
\* the operator answered yes at the handler's confirmation prompt
SaidYes == \E j \in Ins(trace, "confirm") : trace[j].res = "yes"

\* what C25 says of handle_start and handle_stop: startVM is issued for a
\* resolved VM of every status other than exactly `running`, "Running"
\* included; stopVM is issued, when forced or confirmed, for every status
\* other than exactly `stopped`
StartStopOnOpenStatus ==
    /\ (h.verb = "start" /\ vm # NoVM /\ vm.status # "running") => Issues("start_call", "startVM")
    /\ (h.verb = "stop" /\ vm # NoVM /\ vm.status # "stopped" /\ (h.force \/ SaidYes))
          => Issues("stop_call", "stopVM")

\* C25 as stated: the above, and handle_delete issues deleteVM for a resolved
\* VM regardless of its status.
C25_OpenStatusSet ==
    /\ StartStopOnOpenStatus
    /\ (h.verb = "delete" /\ vm # NoVM) => Issues("delete_call", "deleteVM")

\* C25, amended: the above, and handle_delete issues deleteVM for a resolved
\* VM of any status when forced or confirmed; without the force flag and
\* without the operator's yes it issues none, whatever the status.
C25_OpenStatusSetWhenConfirmed ==
    /\ StartStopOnOpenStatus
    /\ (h.verb = "delete" /\ vm # NoVM /\ (h.force \/ SaidYes))
          => Issues("delete_call", "deleteVM")
    /\ (h.verb = "delete" /\ vm # NoVM /\ ~h.force /\ ~SaidYes)
          => ~Issues("delete_call", "deleteVM")

\* `start i1` on a VM whose status is written "Running": startVM is sent
C25_Witness ==
    /\ cmd.verb = "start" /\ pc = "exited"
    /\ vm.status = "Running"
    /\ Calls(trace, "startVM") # {}

====
